---- MODULE Spec2Model ----
(***************************************************************************)
(* Model of tiny-xvl: the determinant kernel (vnl/vnl_det.h), the 2D       *)
(* convex-hull builder vgl_convex_hull and the containment query           *)
(* vgl_polygon::contains that the test vgl/tests/test_convex.cpp drives.   *)
(*                                                                         *)
(* vnl_det.h is translated from its source.  vgl_convex.h and              *)
(* vgl_polygon.h are included by the test but their text is not part of    *)
(* the source tree at hand; the hull builder and the containment test are  *)
(* translated from sections 4.1-4.3 of the design specification.           *)
(*                                                                         *)
(* Coordinates are doubles in the program.  The model draws them from a    *)
(* small integer grid, where every product and difference the algorithms   *)
(* form is exact in double arithmetic, so Integers model them faithfully.  *)
(***************************************************************************)
EXTENDS Integers, Sequences, FiniteSets

(* ------------------------------ bounds -------------------------------- *)

\* Coordinates range over 0..GridMax.
GridMax == 2

\* Longest input point sequence the caller builds.
MaxPts == 4

\* Matrix entries handed to vnl_det range over -DetValMax..DetValMax
\* (over 0..DetValMax for the 4x4 case).
DetValMax == 1

\* The largest matrix vnl_det evaluates directly.
MaxDetDim == 4

\* vnl_matrix_fixed<T, num_rows, num_cols> is instantiated with 1 to
\* MatDimMax rows and columns, with entries in -MatValMax..MatValMax.
MatDimMax == 2
MatValMax == 1
UpdDimMax == 2
UpdValMax == 1
UpdOffMax == 2
\* unsigned int: two halves of 16 bits.
Half == 65536

Coord == 0..GridMax

\* vgl_point_2d<double>: a pair <<x, y>>.
Point == Coord \X Coord

(* ------------------------ orientation kernel -------------------------- *)

\* A wrong 2x2 determinant: the two products are added instead of
\* subtracted.
vnl_det2_plus(row0, row1) ==
    row0[1] * row1[2] + row0[2] * row1[1]

\* A wrong 2x2 determinant: the two rows are exchanged, which negates it.
vnl_det2_swapped(row0, row1) ==
    row1[1] * row0[2] - row1[2] * row0[1]

\* A wrong 2x2 determinant: the column indices of the products slipped.
vnl_det2_index_slip(row0, row1) ==
    row0[1] * row1[1] - row0[2] * row1[2]

\* A wrong 2x2 determinant: the second product reads row0 twice.
vnl_det2_same_row(row0, row1) ==
    row0[1] * row1[2] - row0[2] * row0[1]

\* vnl_det(T const* row0, T const* row1): rows are <<r[0], r[1]>>, i.e.
\* the C index k is the TLA+ index k+1.
vnl_det2(row0, row1) ==
    row0[1] * row1[2] - row0[2] * row1[1]

\* A wrong 3x3 determinant: the sign of the fourth term is flipped.
vnl_det3_term_sign(row0, row1, row2) ==
      row0[1] * row1[2] * row2[3]
    - row0[1] * row2[2] * row1[3]
    - row1[1] * row0[2] * row2[3]
    - row1[1] * row2[2] * row0[3]
    + row2[1] * row0[2] * row1[3]
    - row2[1] * row1[2] * row0[3]

\* A wrong 3x3 determinant: the column indices of the second term are
\* exchanged.
vnl_det3_index_slip(row0, row1, row2) ==
      row0[1] * row1[2] * row2[3]
    - row0[1] * row2[3] * row1[2]
    - row1[1] * row0[2] * row2[3]
    + row1[1] * row2[2] * row0[3]
    + row2[1] * row0[2] * row1[3]
    - row2[1] * row1[2] * row0[3]

\* vnl_det(T const* row0, T const* row1, T const* row2)
vnl_det3(row0, row1, row2) ==
      row0[1] * row1[2] * row2[3]
    - row0[1] * row2[2] * row1[3]
    - row1[1] * row0[2] * row2[3]
    + row1[1] * row2[2] * row0[3]
    + row2[1] * row0[2] * row1[3]
    - row2[1] * row1[2] * row0[3]

\* A wrong 4x4 determinant: the sign of the seventeenth term is flipped.
vnl_det4_term_sign(row0, row1, row2, row3) ==
      row0[1] * row1[2] * row2[3] * row3[4]
    - row0[1] * row1[2] * row3[3] * row2[4]
    - row0[1] * row2[2] * row1[3] * row3[4]
    + row0[1] * row2[2] * row3[3] * row1[4]
    + row0[1] * row3[2] * row1[3] * row2[4]
    - row0[1] * row3[2] * row2[3] * row1[4]
    - row1[1] * row0[2] * row2[3] * row3[4]
    + row1[1] * row0[2] * row3[3] * row2[4]
    + row1[1] * row2[2] * row0[3] * row3[4]
    - row1[1] * row2[2] * row3[3] * row0[4]
    - row1[1] * row3[2] * row0[3] * row2[4]
    + row1[1] * row3[2] * row2[3] * row0[4]
    + row2[1] * row0[2] * row1[3] * row3[4]
    - row2[1] * row0[2] * row3[3] * row1[4]
    - row2[1] * row1[2] * row0[3] * row3[4]
    + row2[1] * row1[2] * row3[3] * row0[4]
    - row2[1] * row3[2] * row0[3] * row1[4]
    - row2[1] * row3[2] * row1[3] * row0[4]
    - row3[1] * row0[2] * row1[3] * row2[4]
    + row3[1] * row0[2] * row2[3] * row1[4]
    + row3[1] * row1[2] * row0[3] * row2[4]
    - row3[1] * row1[2] * row2[3] * row0[4]
    - row3[1] * row2[2] * row0[3] * row1[4]
    + row3[1] * row2[2] * row1[3] * row0[4]

\* vnl_det(T const* row0, T const* row1, T const* row2, T const* row3)
vnl_det4(row0, row1, row2, row3) ==
      row0[1] * row1[2] * row2[3] * row3[4]
    - row0[1] * row1[2] * row3[3] * row2[4]
    - row0[1] * row2[2] * row1[3] * row3[4]
    + row0[1] * row2[2] * row3[3] * row1[4]
    + row0[1] * row3[2] * row1[3] * row2[4]
    - row0[1] * row3[2] * row2[3] * row1[4]
    - row1[1] * row0[2] * row2[3] * row3[4]
    + row1[1] * row0[2] * row3[3] * row2[4]
    + row1[1] * row2[2] * row0[3] * row3[4]
    - row1[1] * row2[2] * row3[3] * row0[4]
    - row1[1] * row3[2] * row0[3] * row2[4]
    + row1[1] * row3[2] * row2[3] * row0[4]
    + row2[1] * row0[2] * row1[3] * row3[4]
    - row2[1] * row0[2] * row3[3] * row1[4]
    - row2[1] * row1[2] * row0[3] * row3[4]
    + row2[1] * row1[2] * row3[3] * row0[4]
    + row2[1] * row3[2] * row0[3] * row1[4]
    - row2[1] * row3[2] * row1[3] * row0[4]
    - row3[1] * row0[2] * row1[3] * row2[4]
    + row3[1] * row0[2] * row2[3] * row1[4]
    + row3[1] * row1[2] * row0[3] * row2[4]
    - row3[1] * row1[2] * row2[3] * row0[4]
    - row3[1] * row2[2] * row0[3] * row1[4]
    + row3[1] * row2[2] * row1[3] * row0[4]

\* vnl_det(vnl_matrix_fixed<T,n,n> const& m) for n = 1..4: m is the
\* sequence of its rows.
vnl_det(m) ==
    CASE Len(m) = 1 -> m[1][1]
      [] Len(m) = 2 -> vnl_det2(m[1], m[2])
      [] Len(m) = 3 -> vnl_det3(m[1], m[2], m[3])
      [] Len(m) = 4 -> vnl_det4(m[1], m[2], m[3], m[4])

\* orientation(a, b, c): the 2x2 determinant of (b - a) and (c - a).
\* > 0: left turn, < 0: right turn, = 0: collinear.
orientation(a, b, c) ==
    vnl_det2(<<b[1] - a[1], b[2] - a[2]>>, <<c[1] - a[1], c[2] - a[2]>>)

(* ----------------------------- hull builder --------------------------- *)

\* A wrong sort key: x alone, ties left in input order.
point_less_x_only(p, q) == p[1] < q[1]

\* The sort key: x ascending, ties broken by y ascending.
point_less(p, q) ==
    \/ p[1] < q[1]
    \/ (p[1] = q[1] /\ p[2] < q[2])

\* Insert p into the sorted sequence s, after every element not greater
\* than it.
RECURSIVE sort_insert(_, _)
sort_insert(s, p) ==
    IF s = <<>> THEN <<p>>
    ELSE IF point_less(p, Head(s)) THEN <<p>> \o s
    ELSE <<Head(s)>> \o sort_insert(Tail(s), p)

\* Step 1: a sorted copy of the input.
RECURSIVE sort_points(_)
sort_points(points) ==
    IF points = <<>> THEN <<>>
    ELSE sort_insert(sort_points(Tail(points)), Head(points))

Front(s) == SubSeq(s, 1, Len(s) - 1)

Reverse(s) == [i \in 1..Len(s) |-> s[Len(s) + 1 - i]]

\* The pop rule: while the stack holds at least two points and its last
\* two points with the candidate do not form a strict left turn, pop.
RECURSIVE pop_while(_, _)
pop_while(stack, p) ==
    IF Len(stack) >= 2
       /\ orientation(stack[Len(stack) - 1], stack[Len(stack)], p) <= 0
    THEN pop_while(Front(stack), p)
    ELSE stack

\* One chain: scan `rest` in order, popping and then appending each
\* candidate.
RECURSIVE scan_chain(_, _)
scan_chain(stack, rest) ==
    IF rest = <<>> THEN stack
    ELSE scan_chain(Append(pop_while(stack, Head(rest)), Head(rest)),
                    Tail(rest))

\* Steps 2 and 3.
lower_chain(sorted) == scan_chain(<<>>, sorted)
upper_chain(sorted) == scan_chain(<<>>, Reverse(sorted))

\* A wrong hull builder: no branch for an input of coincident points, so
\* the ring is always the concatenation of the two chains.
vgl_convex_hull_no_collapse(points) ==
    LET sorted == sort_points(points) IN
    IF sorted = <<>> THEN <<>>
    ELSE Front(lower_chain(sorted)) \o Front(upper_chain(sorted))

\* A wrong hull builder: the polygon of coincident points holds a
\* default-constructed vertex instead of the input point.
vgl_convex_hull_default_vertex(points) ==
    LET sorted == sort_points(points) IN
    IF sorted = <<>> THEN <<>>
    ELSE IF sorted[1] = sorted[Len(sorted)] THEN << <<0, 0>> >>
    ELSE Front(lower_chain(sorted)) \o Front(upper_chain(sorted))

\* vgl_convex_hull(points): steps 1-5.  The ring of the returned polygon.
vgl_convex_hull(points) ==
    LET sorted == sort_points(points) IN
    IF sorted = <<>> THEN <<>>
    ELSE IF sorted[1] = sorted[Len(sorted)] THEN <<sorted[1]>>
    ELSE Front(lower_chain(sorted)) \o Front(upper_chain(sorted))

\* The alternative pop rule of the design notes: collinear triples are
\* kept, only right turns are popped.
RECURSIVE pop_while_right_turn(_, _)
pop_while_right_turn(stack, p) ==
    IF Len(stack) >= 2
       /\ orientation(stack[Len(stack) - 1], stack[Len(stack)], p) < 0
    THEN pop_while_right_turn(Front(stack), p)
    ELSE stack

RECURSIVE scan_chain_keep(_, _)
scan_chain_keep(stack, rest) ==
    IF rest = <<>> THEN stack
    ELSE scan_chain_keep(
             Append(pop_while_right_turn(stack, Head(rest)), Head(rest)),
             Tail(rest))

\* The hull builder under the alternative pop rule; everything else as in
\* vgl_convex_hull.
vgl_convex_hull_keep_collinear(points) ==
    LET sorted == sort_points(points) IN
    IF sorted = <<>> THEN <<>>
    ELSE IF sorted[1] = sorted[Len(sorted)] THEN <<sorted[1]>>
    ELSE Front(scan_chain_keep(<<>>, sorted))
         \o Front(scan_chain_keep(<<>>, Reverse(sorted)))

(* ----------------------------- containment ---------------------------- *)

\* v[i+1] with wrap-around: the ring is closed.
ring_next(ring, i) == ring[(i % Len(ring)) + 1]

Between(lo, x, hi) == (lo <= x /\ x <= hi) \/ (hi <= x /\ x <= lo)

\* The on-boundary check: p is collinear with a and b and within their
\* coordinate range.
on_segment(a, b, p) ==
    /\ orientation(a, b, p) = 0
    /\ Between(a[1], p[1], b[1])
    /\ Between(a[2], p[2], b[2])

\* One edge of the crossing count: the edge a-b straddles the horizontal
\* line through p (half-open in y) and p is strictly left of the point
\* where the edge crosses it.  x < a.x + (b.x-a.x)*(y-a.y)/(b.y-a.y) is
\* compared exactly by multiplying through with b.y - a.y.
edge_crosses(a, b, p) ==
    /\ (a[2] <= p[2] /\ p[2] < b[2]) \/ (b[2] <= p[2] /\ p[2] < a[2])
    /\ IF b[2] - a[2] > 0
       THEN (p[1] - a[1]) * (b[2] - a[2]) < (b[1] - a[1]) * (p[2] - a[2])
       ELSE (p[1] - a[1]) * (b[2] - a[2]) > (b[1] - a[1]) * (p[2] - a[2])

crossings(ring, p) ==
    Cardinality({i \in 1..Len(ring) : edge_crosses(ring[i], ring_next(ring, i), p)})

\* A wrong containment test: the parity of the crossing count is
\* inverted and the empty ring is not told apart.
contains_even(ring, p) ==
    IF \E i \in 1..Len(ring) : on_segment(ring[i], ring_next(ring, i), p)
    THEN TRUE
    ELSE crossings(ring, p) % 2 = 0

\* vgl_polygon::contains(p): false on the empty ring; true on the
\* boundary; otherwise the parity of the crossing count.
contains(ring, p) ==
    IF Len(ring) = 0 THEN FALSE
    ELSE IF \E i \in 1..Len(ring) : on_segment(ring[i], ring_next(ring, i), p)
    THEN TRUE
    ELSE crossings(ring, p) % 2 = 1

(* ------------------------------- state -------------------------------- *)

VARIABLES
    \* The hull test driver (vgl/tests/test_convex.cpp).
    pts,      \* the caller's std::vector<vgl_point_2d<double>>
    phase,    \* "input": filling pts; otherwise how poly was obtained:
              \* "hull" (first call), "permuted" (call on the reordered
              \* vector), "rehull" (call on the previous hull's vertices)
    poly,     \* the ring of the polygon vgl_convex_hull(pts) returned
    query,    \* the argument of the last contains call, <<>> before any
    inside,   \* the result of the last contains call
    \* One call of vgl_convex_hull(pts), step by step.
    pc,       \* "idle", "start", "lower", "upper", "done"
    sorted,   \* the sorted working copy of the input
    rest,     \* the candidates the current chain scan has not reached
    stack,    \* the stack of the current chain scan
    lower,    \* the finished lower chain
    hull,     \* the ring the call returns
    \* One call of vnl_det on the rows of a matrix.
    dpc,      \* "idle", "input", "det", "swapped"
    mrows,    \* the rows handed to vnl_det: 2, 3 or 4 rows of that length
    dval,     \* the value the last vnl_det call returned
    dprev,    \* the value returned before two rows were exchanged
    \* One vnl_matrix_fixed<T, num_rows, num_cols> object and m *= s.
    mpc,      \* "idle", "ready", "done"
    mdim,     \* <<num_rows, num_cols>>
    mthis,    \* the storage of *this, row-major as this->data() reads it
    marg,     \* the storage of the argument s (num_cols x num_cols)
    malias,   \* TRUE when s is the object *this itself
    mold,     \* the storage of *this before the call
    \* One vnl_matrix_fixed<T, nrows, ncols> object and update(m, top, left).
    upc,      \* "idle", "ready", "done", "error"
    udim,     \* <<nrows, ncols>>
    uthis,    \* the storage of *this, row-major
    umdim,    \* <<m.rows(), m.cols()>>
    um,       \* the storage of the argument m, row-major
    utop,     \* the unsigned argument top
    uleft,    \* the unsigned argument left
    uold      \* the storage of *this before the call

hullvars == <<pts, phase, poly, query, inside>>
scanvars == <<pc, sorted, rest, stack, lower, hull>>
detvars == <<dpc, mrows, dval, dprev>>
matvars == <<mpc, mdim, mthis, marg, malias, mold>>

updvars == <<upc, udim, uthis, umdim, um, utop, uleft, uold>>

vars == <<hullvars, scanvars, detvars, matvars, updvars>>

Built == phase # "input"

\* The parts of the state a specification does not exercise stay as they
\* are here.
ScanIdle ==
    /\ pc = "idle" /\ sorted = <<>> /\ rest = <<>>
    /\ stack = <<>> /\ lower = <<>> /\ hull = <<>>

DetIdle ==
    dpc = "idle" /\ mrows = <<>> /\ dval = 0 /\ dprev = 0

MatIdle ==
    /\ mpc = "idle" /\ mdim = <<0, 0>> /\ mthis = <<>> /\ marg = <<>>
    /\ malias = FALSE /\ mold = <<>>

UpdIdle ==
    /\ upc = "idle" /\ udim = <<0, 0>> /\ uthis = <<>>
    /\ umdim = <<0, 0>> /\ um = <<>>
    /\ utop = <<0, 0>> /\ uleft = <<0, 0>> /\ uold = <<>>

HullInit ==
    /\ pts = <<>>
    /\ phase = "input"
    /\ poly = <<>>
    /\ query = <<>>
    /\ inside = FALSE

Init ==
    HullInit /\ ScanIdle /\ DetIdle /\ MatIdle /\ UpdIdle

\* pts.emplace_back(x, y)
emplace_back(p) ==
    /\ phase = "input"
    /\ Len(pts) < MaxPts
    /\ pts' = Append(pts, p)
    /\ UNCHANGED <<phase, poly, query, inside>>
    /\ UNCHANGED <<scanvars, detvars, matvars, updvars>>

\* vgl_polygon<double> poly = vgl_convex_hull(pts);
ConvexHull ==
    /\ phase = "input"
    /\ poly' = vgl_convex_hull(pts)
    /\ phase' = "hull"
    /\ UNCHANGED <<pts, query, inside>>
    /\ UNCHANGED <<scanvars, detvars, matvars, updvars>>

\* poly.contains(q)
Contains(q) ==
    /\ Built
    /\ query' = q
    /\ inside' = contains(poly, q)
    /\ UNCHANGED <<pts, phase, poly>>
    /\ UNCHANGED <<scanvars, detvars, matvars, updvars>>

swap(s, i, j) ==
    [k \in 1..Len(s) |-> IF k = i THEN s[j] ELSE IF k = j THEN s[i] ELSE s[k]]

\* The caller exchanges two elements of pts and builds the hull again.
\* A rebuild replaces the polygon and forgets the answers of the old one,
\* so rebuilding after a query reaches the state that rebuilding before it
\* reaches; the model takes the rebuild before the queries.
Shuffle(i, j) ==
    /\ Built
    /\ query = <<>>
    /\ pts' = swap(pts, i, j)
    /\ poly' = vgl_convex_hull(pts')
    /\ phase' = "permuted"
    /\ query' = <<>>
    /\ inside' = FALSE
    /\ UNCHANGED <<scanvars, detvars, matvars, updvars>>

\* The caller builds the hull of the vertices of the hull it holds.
Rehull ==
    /\ Built
    /\ query = <<>>
    /\ pts' = poly
    /\ poly' = vgl_convex_hull(pts')
    /\ phase' = "rehull"
    /\ query' = <<>>
    /\ inside' = FALSE
    /\ UNCHANGED <<scanvars, detvars, matvars, updvars>>

Permute == \E i, j \in 1..Len(pts) : i < j /\ Shuffle(i, j)

Next ==
    \/ \E p \in Point : emplace_back(p)
    \/ ConvexHull
    \/ \E q \in Point : Contains(q)
    \/ Permute
    \/ Rehull

Spec == Init /\ [][Next]_vars

(* --------------------- the hull builder, stepwise --------------------- *)

\* Every input sequence of at most MaxPts points.
PointSeqs == UNION {[1..n -> Point] : n \in 0..MaxPts}

ScanInit ==
    /\ pts \in PointSeqs
    /\ phase = "input" /\ poly = <<>> /\ query = <<>> /\ inside = FALSE
    /\ pc = "start" /\ sorted = <<>> /\ rest = <<>>
    /\ stack = <<>> /\ lower = <<>> /\ hull = <<>>
    /\ DetIdle /\ MatIdle /\ UpdIdle

\* The pop rule's condition for the next candidate.
must_pop ==
    /\ Len(stack) >= 2
    /\ orientation(stack[Len(stack) - 1], stack[Len(stack)], Head(rest)) <= 0

\* Step 1 and the degenerate sizes of step 5: sort a copy; the empty input
\* and the input of coincident points return at once.
ScanSort ==
    /\ pc = "start"
    /\ sorted' = sort_points(pts)
    /\ IF sorted' = <<>>
       THEN pc' = "done" /\ hull' = <<>> /\ rest' = <<>>
       ELSE IF sorted'[1] = sorted'[Len(sorted')]
       THEN pc' = "done" /\ hull' = <<sorted'[1]>> /\ rest' = <<>>
       ELSE pc' = "lower" /\ hull' = <<>> /\ rest' = sorted'
    /\ UNCHANGED <<stack, lower>>
    /\ UNCHANGED <<hullvars, detvars, matvars, updvars>>

\* A wrong pop: the loop body does not remove the top of the stack.
ScanPop_no_pop ==
    /\ pc \in {"lower", "upper"}
    /\ rest # <<>>
    /\ must_pop
    /\ UNCHANGED <<pc, sorted, rest, stack, lower, hull>>
    /\ UNCHANGED <<hullvars, detvars, matvars, updvars>>

\* One pop of steps 2 and 3.
ScanPop ==
    /\ pc \in {"lower", "upper"}
    /\ rest # <<>>
    /\ must_pop
    /\ stack' = Front(stack)
    /\ UNCHANGED <<pc, sorted, rest, lower, hull>>
    /\ UNCHANGED <<hullvars, detvars, matvars, updvars>>

\* The append of steps 2 and 3, once the pop rule no longer applies.
ScanPush ==
    /\ pc \in {"lower", "upper"}
    /\ rest # <<>>
    /\ ~must_pop
    /\ stack' = Append(stack, Head(rest))
    /\ rest' = Tail(rest)
    /\ UNCHANGED <<pc, sorted, lower, hull>>
    /\ UNCHANGED <<hullvars, detvars, matvars, updvars>>

\* The lower chain is finished: scan right to left for the upper chain.
ScanTurn ==
    /\ pc = "lower"
    /\ rest = <<>>
    /\ lower' = stack
    /\ stack' = <<>>
    /\ rest' = Reverse(sorted)
    /\ pc' = "upper"
    /\ UNCHANGED <<sorted, hull>>
    /\ UNCHANGED <<hullvars, detvars, matvars, updvars>>

\* Step 4: concatenate the chains, each without its last point.
ScanJoin ==
    /\ pc = "upper"
    /\ rest = <<>>
    /\ hull' = Front(lower) \o Front(stack)
    /\ pc' = "done"
    /\ UNCHANGED <<sorted, rest, stack, lower>>
    /\ UNCHANGED <<hullvars, detvars, matvars, updvars>>

NextScan ==
    \/ ScanSort
    \/ ScanPop
    \/ ScanPush
    \/ ScanTurn
    \/ ScanJoin

SpecScan == ScanInit /\ [][NextScan]_vars

\* The call runs to completion: a step that can be taken is taken.
SpecScanFair == SpecScan /\ WF_vars(NextScan)

\* The stepwise builder returns what vgl_convex_hull computes.
ScanAgrees == pc = "done" => hull = vgl_convex_hull(pts)

(* ------------------------- the determinants --------------------------- *)

\* The entries of an n x n input.  The determinant and each product the
\* code forms are multilinear in the entries, so the values 0 and 1
\* already tell two such expressions apart; the smaller cases also take
\* negative entries.
DetVals(n) ==
    IF n = MaxDetDim THEN 0..DetValMax ELSE (0 - DetValMax)..DetValMax

\* Every square input of 1 to MaxDetDim rows.
DetMatrices ==
    UNION {[1..n -> [1..n -> DetVals(n)]] : n \in 1..MaxDetDim}

DetInit ==
    /\ mrows \in DetMatrices
    /\ dpc = "input" /\ dval = 0 /\ dprev = 0
    /\ HullInit /\ ScanIdle /\ MatIdle /\ UpdIdle

\* A wrong call: the rows are written through the pointers (the first
\* row is zeroed) although they are declared T const*.
ComputeDet_clobbers ==
    /\ dpc = "input"
    /\ dval' = vnl_det(mrows)
    /\ dpc' = "det"
    /\ mrows' = [mrows EXCEPT ![1] = [j \in 1..Len(mrows) |-> 0]]
    /\ UNCHANGED dprev
    /\ UNCHANGED <<hullvars, scanvars, matvars, updvars>>

\* d = vnl_det(m): the rows are read through T const*.
ComputeDet ==
    /\ dpc = "input"
    /\ dval' = vnl_det(mrows)
    /\ dpc' = "det"
    /\ UNCHANGED <<mrows, dprev>>
    /\ UNCHANGED <<hullvars, scanvars, matvars, updvars>>

\* The caller exchanges two row arguments and calls vnl_det again.
SwapRows(i, j) ==
    /\ dpc = "det"
    /\ mrows' = swap(mrows, i, j)
    /\ dprev' = dval
    /\ dval' = vnl_det(mrows')
    /\ dpc' = "swapped"
    /\ UNCHANGED <<hullvars, scanvars, matvars, updvars>>

Exchange == \E i, j \in 1..Len(mrows) : i < j /\ SwapRows(i, j)

NextDet ==
    \/ ComputeDet
    \/ Exchange

SpecDet == DetInit /\ [][NextDet]_vars

(* ----------------------- vnl_matrix_fixed *= -------------------------- *)

MatVals == (0 - MatValMax)..MatValMax

\* The storage of an r x c matrix: r*c entries, row-major.  Element
\* (i, j), counted from 0, is entry i*c + j of data(), entry i*c + j + 1
\* here.
MatStorage(r, c) == [1..(r * c) -> MatVals]

elem(data, c, i, j) == data[i * c + j + 1]

\* The out matrix before its elements are assigned: every entry holds an
\* indeterminate value.
Uninit(r, c) == [n \in 1..(r * c) |-> "indeterminate"]

\* for (k = 1; k < num_cols; ++k) accum += this->data()[i*num_cols+k] * s(k,j);
RECURSIVE accum_loop(_, _, _, _, _, _, _)
accum_loop(data, s, c, i, j, k, accum) ==
    IF k < c
    THEN accum_loop(data, s, c, i, j, k + 1,
                    accum + data[i * c + k + 1] * elem(s, c, k, j))
    ELSE accum

\* The body of the two outer loops for one (i, j).
accum_of(data, s, c, i, j) ==
    accum_loop(data, s, c, i, j, 1, data[i * c + 1] * elem(s, c, 0, j))

\* A wrong operator*=: the product is written into *this element by
\* element, without the temporary.
RECURSIVE mul_loop_in_place(_, _, _, _, _, _, _)
mul_loop_in_place(data, s, alias, r, c, out, n) ==
    IF n < r * c
    THEN LET i == n \div c
             j == n % c
             v == accum_of(data, IF alias THEN data ELSE s, c, i, j)
         IN mul_loop_in_place([data EXCEPT ![n + 1] = v], s, alias, r, c,
                              [out EXCEPT ![n + 1] = v], n + 1)
    ELSE out

\* The two outer loops, (i, j) in row-major order; n = i*num_cols + j.
\* data is the storage of *this, which s names too when alias holds; out
\* is the temporary.
RECURSIVE mul_loop(_, _, _, _, _, _, _)
mul_loop(data, s, alias, r, c, out, n) ==
    IF n < r * c
    THEN LET i == n \div c
             j == n % c
             v == accum_of(data, IF alias THEN data ELSE s, c, i, j)
         IN mul_loop(data, s, alias, r, c, [out EXCEPT ![n + 1] = v], n + 1)
    ELSE out

\* operator*=(vnl_matrix_fixed<T,num_cols,num_cols> const& s): the new
\* storage of *this, after  return *this = out.
op_mul_assign(data, s, alias, r, c) ==
    mul_loop(data, s, alias, r, c, Uninit(r, c), 0)

\* A matrix and an argument of the matching size; the argument may be the
\* matrix itself when that is square.
MatInit ==
    /\ \E r, c \in 1..MatDimMax :
         /\ mdim = <<r, c>>
         /\ mthis \in MatStorage(r, c)
         /\ \/ malias = FALSE /\ marg \in MatStorage(c, c)
            \/ malias = TRUE /\ r = c /\ marg = mthis
    /\ mold = <<>>
    /\ mpc = "ready"
    /\ HullInit /\ ScanIdle /\ DetIdle /\ UpdIdle

\* m *= s
MulAssign ==
    /\ mpc = "ready"
    /\ mold' = mthis
    /\ mthis' = op_mul_assign(mthis, marg, malias, mdim[1], mdim[2])
    /\ marg' = IF malias THEN mthis' ELSE marg
    /\ mpc' = "done"
    /\ UNCHANGED <<mdim, malias>>
    /\ UNCHANGED <<hullvars, scanvars, detvars, updvars>>

NextMat == MulAssign

SpecMat == MatInit /\ [][NextMat]_vars

(* ------------------ vnl_matrix_fixed::update(m, top, left) ------------- *)

\* unsigned int is 32 bits wide; a value is kept as <<high, low>>, two
\* 16-bit halves, value = high * Half + low.
u32(n) == <<0, n>>

u32_max_less(k) == <<Half - 1, Half - 1 - k>>

\* a + b of two unsigned int: the carry out of the high half is lost.
u32_add(a, b) ==
    LET lo == a[2] + b[2]
        hi == a[1] + b[1] + (lo \div Half)
    IN  <<hi % Half, lo % Half>>

\* a - b of two unsigned int: the borrow out of the high half is lost.
u32_sub(a, b) ==
    LET lo == a[2] - b[2]
        br == IF lo < 0 THEN 1 ELSE 0
        hi == a[1] - b[1] - br
    IN  <<(hi + Half) % Half, (lo + Half) % Half>>

\* a < b of two unsigned int.
u32_less(a, b) ==
    \/ a[1] < b[1]
    \/ a[1] = b[1] /\ a[2] < b[2]

\* The values of top and left: the small ones and those next to the
\* largest unsigned int.
Offsets ==
    {u32(k) : k \in 0..UpdOffMax} \cup {u32_max_less(k) : k \in 0..UpdOffMax}

UpdVals == 0..UpdValMax

UpdStorage(r, c) == [1..(r * c) -> UpdVals]

\* (*this)(i, j) = v, for a row-major storage of ncols columns; i and j
\* are unsigned int below nrows and ncols.
set_elem(data, ncols, i, j, v) ==
    [data EXCEPT ![i[2] * ncols + j[2] + 1] = v]

\* for (unsigned int j = left; j < right; ++j) (*this)(i, j) = m(i-top,j-left);
RECURSIVE update_row(_, _, _, _, _, _, _, _, _)
update_row(data, ncols, m, mcols, i, j, right, top, left) ==
    IF u32_less(j, right)
    THEN update_row(
             set_elem(data, ncols, i, j,
                      elem(m, mcols, u32_sub(i, top)[2], u32_sub(j, left)[2])),
             ncols, m, mcols, i, u32_add(j, u32(1)), right, top, left)
    ELSE data

\* for (unsigned int i = top; i < bottom; ++i) <the loop over j>
RECURSIVE update_rows(_, _, _, _, _, _, _, _, _)
update_rows(data, ncols, m, mcols, i, bottom, right, top, left) ==
    IF u32_less(i, bottom)
    THEN update_rows(
             update_row(data, ncols, m, mcols, i, left, right, top, left),
             ncols, m, mcols, u32_add(i, u32(1)), bottom, right, top, left)
    ELSE data

\* const unsigned int bottom = top + m.rows();
bottom_of(top, mrows_) == u32_add(top, u32(mrows_))

\* const unsigned int right = left + m.cols();
right_of(left, mcols) == u32_add(left, u32(mcols))

\* if (nrows < bottom || ncols < right), compiled in without NDEBUG.
dimension_error(nrows, ncols, bottom, right) ==
    u32_less(u32(nrows), bottom) \/ u32_less(u32(ncols), right)

\* An nrows x ncols matrix, an argument m and the offsets, before the
\* call.  The argument is a vnl_matrix<T> with at least one element, of
\* any size, which includes the nrows x ncols size of the
\* vnl_matrix_fixed overload.
UpdInit ==
    /\ \E r, c \in 1..UpdDimMax :
         /\ udim = <<r, c>>
         /\ uthis \in UpdStorage(r, c)
    /\ \E r, c \in 1..UpdDimMax :
         /\ umdim = <<r, c>>
         /\ um \in UpdStorage(r, c)
    /\ utop \in Offsets
    /\ uleft \in Offsets
    /\ uold = <<>>
    /\ upc = "ready"
    /\ HullInit /\ ScanIdle /\ DetIdle /\ MatIdle

\* this->update(m, top, left) in a build without NDEBUG.  When the test
\* fires, vnl_error_matrix_dimension reports the error and the call does
\* not go on to the loops.
Update ==
    /\ upc = "ready"
    /\ uold' = uthis
    /\ LET bottom == bottom_of(utop, umdim[1])
           right == right_of(uleft, umdim[2])
       IN  IF dimension_error(udim[1], udim[2], bottom, right)
           THEN upc' = "error" /\ uthis' = uthis
           ELSE /\ upc' = "done"
                /\ uthis' = update_rows(uthis, udim[2], um, umdim[2],
                                        utop, bottom, right, utop, uleft)
    /\ UNCHANGED <<udim, umdim, um, utop, uleft>>
    /\ UNCHANGED <<hullvars, scanvars, detvars, matvars>>

NextUpd == Update

SpecUpd == UpdInit /\ [][NextUpd]_vars

(* ------------------- hull driver or determinant call ------------------ *)

\* A program that either drives the hull builder and the polygon or
\* calls vnl_det; the two share no state.
FrameInit == Init \/ DetInit

NextFrame ==
    \/ dpc = "idle" /\ Next
    \/ NextDet

SpecFrame == FrameInit /\ [][NextFrame]_vars

(* ------------------------- reference notions -------------------------- *)

Range(s) == {s[i] : i \in 1..Len(s)}

\* Twice the signed area of the triangle a, b, c.
turn(a, b, c) ==
    (b[1] - a[1]) * (c[2] - a[2]) - (b[2] - a[2]) * (c[1] - a[1])

\* r1 and r2 list the same closed ring: equal up to the starting vertex.
SameRing(r1, r2) ==
    /\ Len(r1) = Len(r2)
    /\ \/ Len(r1) = 0
       \/ \E k \in 0..(Len(r1) - 1) :
            \A i \in 1..Len(r1) : r1[i] = r2[((i - 1 + k) % Len(r1)) + 1]

\* q is in the closed convex region left of every edge of the ring.
LeftOfEveryEdge(ring, q) ==
    \A i \in 1..Len(ring) : turn(ring[i], ring_next(ring, i), q) >= 0

StrictlyInside(ring, q) ==
    \A i \in 1..Len(ring) : turn(ring[i], ring_next(ring, i), q) > 0

AllCollinear(s) ==
    \A i, j, k \in 1..Len(s) : turn(s[i], s[j], s[k]) = 0

\* The least and the greatest element of a non-empty set of points in
\* (x, y) order.
LessEq(p, q) == p[1] < q[1] \/ (p[1] = q[1] /\ p[2] <= q[2])
MinPoint(S) == CHOOSE p \in S : \A r \in S : LessEq(p, r)
MaxPoint(S) == CHOOSE p \in S : \A r \in S : LessEq(r, p)

(* ------------------------------- claims ------------------------------- *)

\* C1: containment superset.  Whenever contains is asked about a point
\* that occurs in the input sequence of the polygon, it answers true.
C1_ContainmentSuperset ==
    (Built /\ query \in Range(pts)) => inside = TRUE

\* A queried input point strictly inside a hull of at least 3 vertices.
C1_Witness ==
    /\ Built /\ query \in Range(pts) /\ inside
    /\ Len(poly) >= 3 /\ StrictlyInside(poly, query)

\* C2: extremity.  Every vertex of the hull occurs in the input.
C2_Extremity ==
    Built => Range(poly) \subseteq Range(pts)

\* A hull of at least 3 vertices that leaves some input point out.
C2_Witness ==
    Built /\ Len(poly) >= 3 /\ Range(poly) # Range(pts)

\* C3: order invariance.  Building the hull of the reordered input gives
\* the same vertex set and the same cyclic ring.
C3_OrderInvariance ==
    [][Permute => (Range(poly') = Range(poly) /\ SameRing(poly', poly))]_vars

\* A hull of at least 3 vertices built from a reordered, unsorted input.
C3_Witness ==
    /\ phase = "permuted" /\ Len(poly) >= 3
    /\ pts # sort_points(pts)

\* C4: idempotence.  The hull of the hull's vertices has the same vertex
\* set and the same cyclic ring.
C4_Idempotence ==
    [][Rehull => (Range(poly') = Range(poly) /\ SameRing(poly', poly))]_vars

\* A hull of at least 3 vertices obtained from a hull's vertices.
C4_Witness ==
    phase = "rehull" /\ Len(poly) >= 3 /\ pts = poly

\* C5: a hull of at least 3 vertices is counter-clockwise and strictly
\* convex: every three cyclically consecutive vertices turn left.
C5_StrictlyConvexCCW ==
    (Built /\ Len(poly) >= 3) =>
        \A i \in 1..Len(poly) :
            turn(poly[i], ring_next(poly, i), ring_next(poly, i + 1)) > 0

\* A triangle built from an input that holds three distinct collinear
\* points, the middle one of which is dropped.
C5_Witness ==
    /\ Built /\ Len(poly) = 3 /\ Len(pts) = 4
    /\ \E i, j, k \in 1..Len(pts) :
         /\ Cardinality({pts[i], pts[j], pts[k]}) = 3
         /\ turn(pts[i], pts[j], pts[k]) = 0

\* C6: closed-region containment.  On a hull of at least 3 vertices
\* contains(q) is true exactly when q is left of or on every ring edge.
C6_ClosedRegion ==
    (Built /\ Len(poly) >= 3 /\ query # <<>>) =>
        (inside <=> LeftOfEveryEdge(poly, query))

\* A query strictly outside a hull of at least 3 vertices, answered false.
C6_Witness ==
    /\ Built /\ Len(poly) >= 3 /\ query # <<>>
    /\ ~LeftOfEveryEdge(poly, query) /\ ~inside

C8_NoDuplicateVertices ==
    Built => \A i, j \in 1..Len(poly) : poly[i] = poly[j] => i = j

\* A hull of at least 3 vertices whose input repeats a hull vertex.
C8_Witness ==
    /\ Built /\ Len(poly) >= 3
    /\ \E i, j \in 1..Len(pts) :
         i # j /\ pts[i] = pts[j] /\ pts[i] \in Range(poly)

\* C9: collinear collapse.  An input of at least 2 distinct points, all on
\* one line, gives exactly the least and the greatest point in (x, y)
\* order.
C9_CollinearCollapse ==
    (Built /\ Cardinality(Range(pts)) >= 2 /\ AllCollinear(pts)) =>
        /\ Len(poly) = 2
        /\ Range(poly) = {MinPoint(Range(pts)), MaxPoint(Range(pts))}

\* Three distinct points on a vertical line, with a duplicate.
C9_Witness ==
    /\ Built /\ Cardinality(Range(pts)) = 3 /\ AllCollinear(pts)
    /\ Len(pts) = 4
    /\ \A i \in 1..Len(pts) : pts[i][1] = pts[1][1]
    /\ Len(poly) = 2

\* C10: empty hull.  The hull of the empty sequence has no vertices, and
\* contains on a polygon without vertices answers false.
C10_EmptyHull ==
    /\ (Built /\ pts = <<>>) => poly = <<>>
    /\ (Built /\ poly = <<>> /\ query # <<>>) => inside = FALSE

\* A query on the hull of the empty sequence.
C10_Witness ==
    Built /\ pts = <<>> /\ poly = <<>> /\ query # <<>> /\ ~inside

\* q lies on the closed segment from a to b: collinear with them and not
\* beyond either end (the vectors q - a and q - b do not point the same
\* way).
OnClosedSegment(a, b, q) ==
    /\ turn(a, b, q) = 0
    /\ (q[1] - a[1]) * (q[1] - b[1]) + (q[2] - a[2]) * (q[2] - b[2]) <= 0

\* C11: degenerate-polygon containment.  On a 1-vertex polygon contains(q)
\* is true exactly for q equal to the vertex; on a 2-vertex polygon, in
\* either vertex order, exactly for q on the closed segment between them.
C11_DegenerateContainment ==
    (Built /\ query # <<>>) =>
        /\ Len(poly) = 1 => (inside <=> query = poly[1])
        /\ Len(poly) = 2 =>
             /\ inside <=> OnClosedSegment(poly[1], poly[2], query)
             /\ contains(Reverse(poly), query)
                  <=> OnClosedSegment(poly[1], poly[2], query)

\* A query strictly between the two vertices of a segment polygon,
\* answered true.
C11_Witness ==
    /\ Built /\ Len(poly) = 2 /\ query # <<>> /\ inside
    /\ query \notin Range(poly)

\* A query collinear with a segment polygon but beyond its end, answered
\* false.
C11_WitnessBeyond ==
    /\ Built /\ Len(poly) = 2 /\ query # <<>> /\ ~inside
    /\ turn(poly[1], poly[2], query) = 0

\* C12: totality.  Every call of the hull builder, on any input of the
\* bounded set (empty, coincident, collinear, general), reaches its return
\* with a ring of points, and every pop leaves a non-empty stack behind.
C12_Totality ==
    /\ <>(pc = "done" /\ hull \in Seq(Point))
    /\ [][ScanPop => (Len(stack) >= 2 /\ Len(stack') >= 1)]_vars

\* A call that popped has returned a ring of at least 3 vertices.
C12_Witness ==
    pc = "done" /\ Len(hull) >= 3 /\ Len(hull) < Len(pts)

\* C16: chain-scan invariant.  In both chain scans every three
\* consecutive points of the stack turn strictly left; a pop happens only
\* with at least 2 points on the stack and a candidate that does not turn
\* strictly left, and never removes the first point of the chain.
C16_ChainScan ==
    /\ [](pc \in {"lower", "upper"} =>
            \A i \in 1..(Len(stack) - 2) :
                turn(stack[i], stack[i + 1], stack[i + 2]) > 0)
    /\ [][(pc \in {"lower", "upper"} /\ Len(stack') < Len(stack)
             /\ pc' = pc) =>
            /\ Len(stack) >= 2
            /\ turn(stack[Len(stack) - 1], stack[Len(stack)], Head(rest)) <= 0
            /\ stack' = Front(stack)
            /\ stack'[1] = stack[1]]_vars

\* The upper-chain scan holds 3 points after it has popped one.
C16_Witness ==
    pc = "upper" /\ Len(stack) = 3 /\ Len(rest) + Len(stack) < Len(sorted)

(* ---------------------- reference determinants ------------------------ *)

\* The permutations of 1..n.
Perms(n) == {f \in [1..n -> 1..n] : \A i, j \in 1..n : f[i] = f[j] => i = j}

\* +1 for an even permutation, -1 for an odd one.
Parity(f) ==
    LET n == Len(f)
        inv == Cardinality({ij \in (1..n) \X (1..n) :
                               ij[1] < ij[2] /\ f[ij[1]] > f[ij[2]]})
    IN IF inv % 2 = 0 THEN 1 ELSE -1

\* The elements of a finite set, each paired with its parity, in a list.
RECURSIVE SignedList(_)
SignedList(S) ==
    IF S = {} THEN <<>>
    ELSE LET f == CHOOSE f \in S : TRUE
         IN <<[perm |-> f, sign |-> Parity(f)]>> \o SignedList(S \ {f})

SignedPerms1 == SignedList(Perms(1))
SignedPerms2 == SignedList(Perms(2))
SignedPerms3 == SignedList(Perms(3))
SignedPerms4 == SignedList(Perms(4))

SignedPerms(n) ==
    CASE n = 1 -> SignedPerms1
      [] n = 2 -> SignedPerms2
      [] n = 3 -> SignedPerms3
      [] n = 4 -> SignedPerms4

RECURSIVE Diagonal(_, _, _)
Diagonal(m, f, i) ==
    IF i > Len(m) THEN 1 ELSE m[i][f[i]] * Diagonal(m, f, i + 1)

RECURSIVE SignedSum(_, _, _)
SignedSum(m, L, k) ==
    IF k > Len(L) THEN 0
    ELSE L[k].sign * Diagonal(m, L[k].perm, 1) + SignedSum(m, L, k + 1)

\* The determinant as the signed sum over all permutations.
Leibniz(m) == SignedSum(m, SignedPerms(Len(m)), 1)

\* m without row r and column c.
Minor(m, r, c) ==
    [i \in 1..(Len(m) - 1) |->
        [j \in 1..(Len(m) - 1) |->
            m[IF i < r THEN i ELSE i + 1][IF j < c THEN j ELSE j + 1]]]

Identity(n) == [i \in 1..n |-> [j \in 1..n |-> IF i = j THEN 1 ELSE 0]]

Computed == dpc \in {"det", "swapped"}

\* C13: the two-row vnl_det returns row0[0]*row1[1] - row0[1]*row1[0];
\* it is 1 on the rows [1,0],[0,1] and -1 on [0,1],[1,0].
C13_Det2 ==
    (Computed /\ Len(mrows) = 2) =>
        /\ dval = mrows[1][1] * mrows[2][2] - mrows[1][2] * mrows[2][1]
        /\ dval = Leibniz(mrows)
        /\ mrows = << <<1, 0>>, <<0, 1>> >> => dval = 1
        /\ mrows = << <<0, 1>>, <<1, 0>> >> => dval = -1

\* vnl_det has returned -1 for the rows [0,1],[1,0].
C13_Witness ==
    dpc = "det" /\ mrows = << <<0, 1>>, <<1, 0>> >> /\ dval = -1

\* C14: exchanging two row arguments of the 2-, 3- or 4-row vnl_det
\* negates the result, and the result is 0 when two rows are equal.
C14_RowSwapAntisymmetry ==
    /\ dpc = "swapped" => dval = 0 - dprev
    /\ (Computed /\ \E i, j \in 1..Len(mrows) : i < j /\ mrows[i] = mrows[j])
         => dval = 0

\* Two rows of a 4x4 input with a non-zero determinant were exchanged.
C14_Witness ==
    dpc = "swapped" /\ Len(mrows) = 4 /\ dval # 0 /\ dprev = 0 - dval

\* C15: the three-row vnl_det is the cofactor expansion along the first
\* row, in terms of the two-row vnl_det of the minors; it is 1 on the rows
\* of the identity.
C15_Det3 ==
    (Computed /\ Len(mrows) = 3) =>
        /\ dval = mrows[1][1] * vnl_det(Minor(mrows, 1, 1))
                - mrows[1][2] * vnl_det(Minor(mrows, 1, 2))
                + mrows[1][3] * vnl_det(Minor(mrows, 1, 3))
        /\ dval = Leibniz(mrows)
        /\ mrows = Identity(3) => dval = 1

\* vnl_det has returned a negative value for a 3x3 input without a zero
\* in its first row.
C15_Witness ==
    /\ dpc = "det" /\ Len(mrows) = 3 /\ dval < 0
    /\ \A j \in 1..3 : mrows[1][j] # 0

\* C17: the four-row vnl_det is the Laplace expansion along the first row
\* in terms of the three-row vnl_det of the 3x3 minors, and the signed sum
\* over the 24 permutations; it is 1 on the rows of the identity.
C17_Det4 ==
    (Computed /\ Len(mrows) = 4) =>
        /\ dval = mrows[1][1] * vnl_det(Minor(mrows, 1, 1))
                - mrows[1][2] * vnl_det(Minor(mrows, 1, 2))
                + mrows[1][3] * vnl_det(Minor(mrows, 1, 3))
                - mrows[1][4] * vnl_det(Minor(mrows, 1, 4))
        /\ dval = Leibniz(mrows)
        /\ mrows = Identity(4) => dval = 1

\* vnl_det has returned a value below -1 for a 4x4 input.
C17_Witness ==
    dpc = "det" /\ Len(mrows) = 4 /\ dval < -1

RECURSIVE DotSum(_, _, _, _, _, _)
DotSum(a, b, c, i, j, from) ==
    IF from >= c THEN 0
    ELSE elem(a, c, i, from) * elem(b, c, from, j)
         + DotSum(a, b, c, i, j, from + 1)

\* The argument as it was when the call started.
OldArg == IF malias THEN mold ELSE marg

\* C20: m *= s leaves m equal to the matrix product (old m)*s, every
\* element computed from the old values of m, also when s is m itself.
C20_MulAssign ==
    mpc = "done" =>
        /\ Len(mthis) = mdim[1] * mdim[2]
        /\ \A i \in 0..(mdim[1] - 1) : \A j \in 0..(mdim[2] - 1) :
             elem(mthis, mdim[2], i, j)
               = DotSum(mold, OldArg, mdim[2], i, j, 0)

\* A 2x2 matrix multiplied by itself in place, where the product differs
\* from the matrix.
C20_Witness ==
    mpc = "done" /\ malias /\ mdim = <<2, 2>> /\ mthis # mold

C18_WitnessHull ==
    /\ phase = "hull" /\ query # <<>> /\ Len(poly) >= 3
    /\ pts # sort_points(pts)

BlockFits ==
    /\ utop[1] = 0 /\ utop[2] + umdim[1] <= udim[1]
    /\ uleft[1] = 0 /\ uleft[2] + umdim[2] <= udim[2]

InBlock(i, j) ==
    /\ utop[2] <= i /\ i < utop[2] + umdim[1]
    /\ uleft[2] <= j /\ j < uleft[2] + umdim[2]

BlockWritten ==
    /\ Len(uthis) = udim[1] * udim[2]
    /\ \A i \in 0..(udim[1] - 1) : \A j \in 0..(udim[2] - 1) :
         elem(uthis, udim[2], i, j) =
             IF InBlock(i, j)
             THEN elem(um, umdim[2], i - utop[2], j - uleft[2])
             ELSE elem(uold, udim[2], i, j)

\* C21: without NDEBUG, update(m, top, left) reports a matrix-dimension
\* error whenever the block does not fit in the nrows x ncols matrix, for
\* every unsigned top and left; when the block fits, the elements of the
\* block are those of m and every other element is as before.
C21_UpdateChecked ==
    upc \in {"done", "error"} =>
        /\ ~BlockFits => upc = "error"
        /\ BlockFits => (upc = "done" /\ BlockWritten)

\* The same statement for offsets whose sums with the sizes of m do not
\* wrap around.
C21_UpdateCheckedNoWrap ==
    (upc \in {"done", "error"} /\ utop[1] = 0 /\ uleft[1] = 0) =>
        /\ ~BlockFits => upc = "error"
        /\ BlockFits => (upc = "done" /\ BlockWritten)

\* A call whose top wrapped around has returned without an error and
\* without writing an element.
C21_WrapSilent ==
    /\ upc = "done" /\ utop[1] # 0 /\ umdim = udim
    /\ uthis = uold

\* A call has written a block that is smaller than the matrix.
C21_Witness ==
    /\ upc = "done" /\ BlockFits /\ uthis # uold
    /\ umdim[1] * umdim[2] \in 1..(udim[1] * udim[2] - 1)

====
